---- MODULE Spec2Model ----
(***************************************************************************)
(* GetToThePoint (main.py): the audio transcription pipeline               *)
(* transcribe_audio (silence chunks, per-chunk recognition with a bounded  *)
(* retry loop, transcript aggregation) and the routing of the /summarize   *)
(* request handler.                                                        *)
(*                                                                         *)
(* The remote recognizer, the YouTube transcript service, the docx reader  *)
(* and the generative model are outside the program: every result they can *)
(* hand back is drawn nondeterministically at the call.                    *)
(***************************************************************************)
EXTENDS Integers, Sequences, FiniteSets, TLC

VARIABLES
    pc,           \* position inside transcribe_audio
    n,            \* len(chunks), the result of split_on_silence
    max_retries,  \* parameter of transcribe_audio
    i,            \* index of the for loop over chunks (0-based)
    attempt,      \* index of the retry loop
    transcript,   \* the local string transcript
    fs,           \* names of the scratch files present on disk
    calls,        \* history: per chunk, the recognizer outcomes in call order
    sleeps,       \* history: per chunk, the number of time.sleep(retry_delay)
    snap,         \* history: transcript as it was when each chunk started
    hpc,          \* position inside the /summarize handler
    request,      \* the form fields of the request being handled
    branch,       \* the if/elif arm the handler took
    prompts,      \* history: prompts sent to model.generate_content
    summarized,   \* history: arguments summarize_text was called with
    summary,      \* handler local
    error         \* handler local

vars == <<pc, n, max_retries, i, attempt, transcript, fs, calls, sleeps, snap,
          hpc, request, branch, prompts, summarized, summary, error>>

tvars == <<pc, n, max_retries, i, attempt, transcript, fs, calls, sleeps, snap>>
hvars == <<hpc, request, branch, prompts, summarized, summary, error>>

----------------------------------------------------------------------------
(* Bounds of the exploration *)

MaxChunks == 3
MaxRetries == 2

(* Default of the max_retries parameter *)
DefaultMaxRetries == 3

----------------------------------------------------------------------------
(* Python values *)

\* An optional value: None is the empty tuple, a present value a 1-tuple.
None == <<>>
Some(x) == <<x>>

\* Truthiness of an Optional[str] form field: None and "" are falsy.
TruthyStr(o) == o # None /\ o[1] # ""

\* Truthiness of an Optional[UploadFile]: an UploadFile object is truthy.
TruthyFile(o) == o # None

\* str(x) inside an f-string for an Optional[str].
PyStr(o) == IF o = None THEN "None" ELSE o[1]

\* needle in s
Contains(needle, s) ==
    \E p \in 1..(Len(s) - Len(needle) + 1) :
        SubSeq(s, p, p + Len(needle) - 1) = needle

RECURSIVE Concat(_)
Concat(ss) == IF ss = <<>> THEN "" ELSE Head(ss) \o Concat(Tail(ss))

----------------------------------------------------------------------------
(* The recognizer boundary: what recognizer.recognize_google can do *)

Texts == {"hello", "world"}

BrokenPipeMsg == "recognition connection failed: [Errno 32] Broken pipe"

RequestErrorMsgs ==
    {BrokenPipeMsg, "recognition request failed: Bad Gateway", "broken pipe"}

\* Outcomes the retry loop has a handler for.
HandledOutcomes ==
    [kind : {"text"}, val : Texts]
        \cup {[kind |-> "unknown", val |-> ""]}
        \cup [kind : {"request_error"}, val : RequestErrorMsgs]

\* Exceptions that are neither UnknownValueError nor RequestError.
OtherExceptions == {[kind |-> "other", val |-> "timed out"]}

\* Variant: the substring test reduced to "pipe".
IsBrokenPipeLoose(o) == o.kind = "request_error" /\ Contains("pipe", o.val)

\* if "Broken pipe" in str(e)
IsBrokenPipe(o) == o.kind = "request_error" /\ Contains("Broken pipe", o.val)

----------------------------------------------------------------------------
(* transcribe_audio: the body of the retry loop *)

\* transcript += f" {chunk_transcript}"
TextSegment(t) == " " \o t

\* transcript += " [Could not understand audio chunk] "
UnknownSegment == " [Could not understand audio chunk] "

\* transcript += f" [Could not transcribe audio chunk: {e}] "
RequestErrorSegment(msg) == " [Could not transcribe audio chunk: " \o msg \o "] "

\* Variant: the broken-pipe arm appends the placeholder as well.
AppendedMarksRetry(o) ==
    CASE o.kind = "text" -> TextSegment(o.val)
      [] o.kind = "unknown" -> UnknownSegment
      [] o.kind = "request_error" -> RequestErrorSegment(o.val)

\* What one pass of the try/except appends to transcript.
Appended(o) ==
    CASE o.kind = "text" -> TextSegment(o.val)
      [] o.kind = "unknown" -> UnknownSegment
      [] o.kind = "request_error" ->
            IF IsBrokenPipe(o) THEN "" ELSE RequestErrorSegment(o.val)

\* Variant: no break in the except sr.UnknownValueError arm.
BreaksUnknownContinues(o) ==
    CASE o.kind = "text" -> TRUE
      [] o.kind = "unknown" -> FALSE
      [] o.kind = "request_error" -> ~IsBrokenPipe(o)

\* Variant: no break after a successful recognition.
BreaksTextContinues(o) ==
    CASE o.kind = "text" -> FALSE
      [] o.kind = "unknown" -> TRUE
      [] o.kind = "request_error" -> ~IsBrokenPipe(o)

\* Whether the pass ends in break.
Breaks(o) ==
    CASE o.kind = "text" -> TRUE
      [] o.kind = "unknown" -> TRUE
      [] o.kind = "request_error" -> ~IsBrokenPipe(o)

\* How many time.sleep(retry_delay) the pass performs.
SleepsAfter(o) == IF IsBrokenPipe(o) THEN 1 ELSE 0

\* Variant: range(max_retries + 1).
InRangeInclusive(a, mr) == a <= mr

\* for attempt in range(max_retries): whether a is produced by the range.
InRange(a, mr) == a < mr

\* temp_chunk_file = f"temp_chunk_{i}.wav"
TempChunkFile(j) == "temp_chunk_" \o ToString(j) \o ".wav"

TempAudioFile == "temp_audio.wav"
TempDocFile == "temp_doc.docx"

----------------------------------------------------------------------------
(* summarize_text and the extraction helpers of the handler *)

LLMResponses ==
    {[ok |-> TRUE, val |-> "- point"], [ok |-> FALSE, val |-> "quota exceeded"]}

Prompt(text) ==
    "Summarize the following text in a concise, point-wise format with bullet points:\n\n"
        \o PyStr(text)
        \o "\n use professional and clear tone and attractive words to maintain reader's engagement"

summarize_text(text, resp) ==
    IF resp.ok THEN resp.val ELSE "Error summarizing text: " \o resp.val

\* [^&\s]
IsIdChar(c) == c \notin {"&", " ", "\t", "\n", "\r", "\f"}

\* re.search(r"(?<=v=)[^&\s]+", youtube_url): leftmost start, longest run.
extract_video_id(url) ==
    LET starts == {p \in 3..Len(url) :
                      /\ SubSeq(url, p - 2, p - 1) = "v="
                      /\ IsIdChar(SubSeq(url, p, p))}
    IN  IF starts = {} THEN None
        ELSE LET p == CHOOSE x \in starts : \A y \in starts : x <= y
                 ends == {q \in p..Len(url) :
                             \A r \in p..q : IsIdChar(SubSeq(url, r, r))}
                 e == CHOOSE x \in ends : \A y \in ends : y <= x
             IN  Some(SubSeq(url, p, e))

RECURSIVE Join(_, _)
Join(sep, ss) ==
    IF ss = <<>> THEN ""
    ELSE IF Len(ss) = 1 THEN ss[1]
    ELSE ss[1] \o sep \o Join(sep, Tail(ss))

\* What the transcript service can do for a video.
YoutubeOutcomes ==
    {[kind |-> "fetched", items |-> <<"never", "gonna">>],
     [kind |-> "fetched", items |-> <<"Error", "404">>],
     [kind |-> "none", items |-> <<>>],
     [kind |-> "disabled", items |-> <<>>],
     [kind |-> "failed", items |-> <<"timeout">>]}

get_youtube_transcript(yt) ==
    CASE yt.kind = "fetched" -> Join(" ", yt.items)
      [] yt.kind = "none" -> "No transcript available in any language."
      [] yt.kind = "disabled" -> "Transcripts are disabled for this video."
      [] yt.kind = "failed" -> "Error retrieving transcript: " \o yt.items[1]

\* What Document(docx_file) can do.
DocxOutcomes ==
    {[kind |-> "ok", paragraphs |-> <<"Title", "Body">>],
     [kind |-> "failed", paragraphs |-> <<"Package not found">>]}

extract_text_from_docx(doc) ==
    IF doc.kind = "ok" THEN Join("\n", doc.paragraphs)
    ELSE "Error extracting text from docx: " \o doc.paragraphs[1]

----------------------------------------------------------------------------
(* Initial state: nothing called yet *)

Init ==
    /\ pc = "idle"
    /\ n = 0
    /\ max_retries = DefaultMaxRetries
    /\ i = 0
    /\ attempt = 0
    /\ transcript = ""
    /\ fs = {}
    /\ calls = <<>>
    /\ sleeps = <<>>
    /\ snap = <<>>
    /\ hpc = "idle"
    /\ request = [youtube_url |-> None, text_input |-> None,
                  audio_file |-> None, docx_file |-> None]
    /\ branch = "unset"
    /\ prompts = <<>>
    /\ summarized = <<>>
    /\ summary = None
    /\ error = None

----------------------------------------------------------------------------
(* transcribe_audio *)

\* Entry: recognizer, segmentation into len chunks, transcript = "".
EnterTranscribe(len, mr) ==
    /\ pc' = "loop"
    /\ n' = len
    /\ max_retries' = mr
    /\ i' = 0
    /\ attempt' = 0
    /\ transcript' = ""
    /\ calls' = [j \in 1..len |-> <<>>]
    /\ sleeps' = [j \in 1..len |-> 0]
    /\ snap' = <<>>

\* A caller other than the handler calls transcribe_audio(audio_file, mr).
CallTranscribe ==
    /\ pc = "idle"
    /\ hpc = "idle"
    /\ \E len \in 0..MaxChunks, mr \in 1..MaxRetries : EnterTranscribe(len, mr)
    /\ UNCHANGED <<fs, hvars>>

\* Top of the for loop over chunks: export the chunk, open it, record it.
ExportChunk ==
    /\ pc = "loop"
    /\ i < n
    /\ fs' = fs \cup {TempChunkFile(i)}
    /\ snap' = Append(snap, transcript)
    /\ attempt' = 0
    /\ pc' = IF InRange(0, max_retries) THEN "attempt" ELSE "remove"
    /\ UNCHANGED <<n, max_retries, i, transcript, calls, sleeps, hvars>>

\* One pass of the retry loop whose recognizer call ends in a handled outcome.
Recognize ==
    /\ pc = "attempt"
    /\ \E o \in HandledOutcomes :
        /\ calls' = [calls EXCEPT ![i + 1] = Append(@, o)]
        /\ transcript' = transcript \o Appended(o)
        /\ sleeps' = [sleeps EXCEPT ![i + 1] = @ + SleepsAfter(o)]
        /\ IF Breaks(o)
           THEN /\ attempt' = attempt
                /\ pc' = "remove"
           ELSE /\ attempt' = attempt + 1
                /\ pc' = IF InRange(attempt + 1, max_retries) THEN "attempt" ELSE "remove"
    /\ UNCHANGED <<n, max_retries, i, fs, snap, hvars>>

\* A recognizer call raising anything else: no except clause matches, the
\* exception leaves transcribe_audio; the handler's except Exception takes it.
RecognizeRaises ==
    /\ pc = "attempt"
    /\ \E o \in OtherExceptions :
        /\ calls' = [calls EXCEPT ![i + 1] = Append(@, o)]
        /\ IF hpc = "transcribing"
           THEN /\ error' = Some("Error processing audio: " \o o.val)
                /\ hpc' = "responded"
           ELSE UNCHANGED <<error, hpc>>
    /\ pc' = "raised"
    /\ UNCHANGED <<n, max_retries, i, attempt, transcript, fs, sleeps, snap,
                   request, branch, prompts, summarized, summary>>

\* os.remove(temp_chunk_file), then the next chunk.
RemoveChunk ==
    /\ pc = "remove"
    /\ fs' = fs \ {TempChunkFile(i)}
    /\ i' = i + 1
    /\ pc' = "loop"
    /\ UNCHANGED <<n, max_retries, attempt, transcript, calls, sleeps, snap, hvars>>

\* return transcript; in the handler: summarize it, remove temp_audio.wav.
Return ==
    /\ pc = "loop"
    /\ i = n
    /\ pc' = "returned"
    /\ IF hpc = "transcribing"
       THEN \E resp \in LLMResponses :
               /\ summarized' = Append(summarized, Some(transcript))
               /\ prompts' = Append(prompts, Prompt(Some(transcript)))
               /\ summary' = Some(summarize_text(Some(transcript), resp))
               /\ fs' = fs \ {TempAudioFile}
               /\ hpc' = "responded"
               /\ UNCHANGED <<request, branch, error>>
       ELSE UNCHANGED <<fs, hvars>>
    /\ UNCHANGED <<n, max_retries, i, attempt, transcript, calls, sleeps, snap>>

----------------------------------------------------------------------------
(* POST /summarize *)

Urls == {"yt.com/watch?v=abc&t=1", "youtu.be/abc", "yt.com/watch?v=&t=1"}

Requests ==
    [youtube_url : {None, Some("")} \cup {Some(u) : u \in Urls},
     text_input : {None, Some(""), Some("some text")},
     audio_file : {None, Some("a.wav")},
     docx_file : {None, Some("d.docx")}]

\* The arm of the if/elif chain a request takes ("and" binds tighter than "or").
Branch(req) ==
    LET y == TruthyStr(req.youtube_url)
        t == TruthyStr(req.text_input)
        a == TruthyFile(req.audio_file)
        d == TruthyFile(req.docx_file)
    IN  IF y THEN "youtube"
        ELSE IF (t /\ ~y) \/ a \/ d THEN "text"
        ELSE IF (a /\ ~y) \/ t \/ d THEN "audio"
        ELSE IF (d /\ ~y) \/ t \/ a THEN "docx"
        ELSE "none"

\* summary = summarize_text(arg)
CallSummarize(arg, resp) ==
    /\ summarized' = Append(summarized, arg)
    /\ prompts' = Append(prompts, Prompt(arg))
    /\ summary' = Some(summarize_text(arg, resp))

\* The handler, up to its response (or up to its call of transcribe_audio).
Summarize ==
    /\ pc = "idle"
    /\ hpc = "idle"
    /\ \E req \in Requests, yt \in YoutubeOutcomes, doc \in DocxOutcomes,
          resp \in LLMResponses, len \in 0..MaxChunks :
        /\ request' = req
        /\ branch' = Branch(req)
        /\ CASE Branch(req) = "youtube" ->
                  LET video_id == extract_video_id(req.youtube_url[1])
                      text == get_youtube_transcript(yt)
                  IN  /\ IF video_id # None
                         THEN IF ~Contains("Error", text)
                              THEN CallSummarize(Some(text), resp) /\ error' = None
                              ELSE /\ error' = Some(text)
                                   /\ UNCHANGED <<summarized, prompts, summary>>
                         ELSE /\ error' = Some("Invalid YouTube URL")
                              /\ UNCHANGED <<summarized, prompts, summary>>
                      /\ hpc' = "responded"
                      /\ UNCHANGED <<tvars>>
             [] Branch(req) = "text" ->
                  /\ CallSummarize(req.text_input, resp)
                  /\ error' = None
                  /\ hpc' = "responded"
                  /\ UNCHANGED <<tvars>>
             [] Branch(req) = "audio" ->
                  /\ fs' = fs \cup {TempAudioFile}
                  /\ EnterTranscribe(len, DefaultMaxRetries)
                  /\ hpc' = "transcribing"
                  /\ UNCHANGED <<summarized, prompts, summary, error>>
             [] Branch(req) = "docx" ->
                  /\ CallSummarize(Some(extract_text_from_docx(doc)), resp)
                  /\ fs' = (fs \cup {TempDocFile}) \ {TempDocFile}
                  /\ error' = None
                  /\ hpc' = "responded"
                  /\ UNCHANGED <<pc, n, max_retries, i, attempt, transcript,
                                 calls, sleeps, snap>>
             [] Branch(req) = "none" ->
                  /\ error' = Some("Error no input provided !")
                  /\ hpc' = "responded"
                  /\ UNCHANGED <<summarized, prompts, summary, tvars>>

----------------------------------------------------------------------------
(* Specifications *)

\* transcribe_audio with a recognizer that always ends in a handled outcome.
NextTranscribe ==
    \/ CallTranscribe
    \/ ExportChunk
    \/ Recognize
    \/ RemoveChunk
    \/ Return

Next ==
    \/ CallTranscribe
    \/ ExportChunk
    \/ Recognize
    \/ RecognizeRaises
    \/ RemoveChunk
    \/ Return
    \/ Summarize

Spec == Init /\ [][Next]_vars

\* The interpreter runs the single thread on: a step that can be taken is taken.
LiveSpec == Init /\ [][NextTranscribe]_vars /\ WF_vars(NextTranscribe)

----------------------------------------------------------------------------
(* Vocabulary of the properties, read off the history variables.  Chunk j  *)
(* of the source (0-based) is index j + 1 of calls, sleeps and snap.       *)

\* The attempt sequence of the chunk at index j is over, without an exception.
Finished(j) == j <= i \/ (j = i + 1 /\ pc = "remove")

\* The transcript when the chunk at index j started, and after it.
StartText(j) == snap[j]
EndText(j) == IF j < Len(snap) THEN snap[j + 1] ELSE transcript

BrokenPipeError(o) == o.kind = "request_error" /\ o.val = BrokenPipeMsg

OtherRequestError(o) ==
    /\ o.kind = "request_error"
    /\ o.val \in {"recognition request failed: Bad Gateway", "broken pipe"}

\* The first k calls of the chunk at index j all raised the broken-pipe error.
BrokenPipePrefix(j, k) ==
    /\ Len(calls[j]) >= k
    /\ \A m \in 1..k : BrokenPipeError(calls[j][m])

\* Every one of max_retries attempts of the chunk raised the broken-pipe error.
Exhausted(j) == Len(calls[j]) = max_retries /\ BrokenPipePrefix(j, max_retries)

RECURSIVE TotalCalls(_)
TotalCalls(cs) == IF cs = <<>> THEN 0 ELSE Len(Head(cs)) + TotalCalls(Tail(cs))

\* The segment the claims expect of a chunk whose last call had outcome o.
HasSegment(o) == o.kind = "text" \/ o.kind = "unknown" \/ OtherRequestError(o)
ExpectedSegment(o) ==
    CASE o.kind = "text" -> " " \o o.val
      [] o.kind = "unknown" -> " [Could not understand audio chunk] "
      [] OTHER -> " [Could not transcribe audio chunk: " \o o.val \o "] "

Last(seq) == seq[Len(seq)]

AudioOnly(req) ==
    /\ req.audio_file # None
    /\ req.youtube_url = None /\ req.text_input = None /\ req.docx_file = None

DocxOnly(req) ==
    /\ req.docx_file # None
    /\ req.youtube_url = None /\ req.text_input = None /\ req.audio_file = None

----------------------------------------------------------------------------
(* Properties *)

\* C1: a chunk whose every attempt raised the broken-pipe error had exactly
\* max_retries attempts and max_retries - 1 sleeps (none after the last attempt).
C1_SleepsBetweenAttempts ==
    \A j \in DOMAIN calls :
        (Finished(j) /\ Exhausted(j)) =>
            /\ Len(calls[j]) = max_retries
            /\ sleeps[j] = max_retries - 1

\* C2: a chunk whose recognizer call reports "audio not understood" has exactly
\* one attempt, no sleep, and the fixed placeholder appended to the transcript.
C2_UnknownOnce ==
    \A j \in DOMAIN calls :
        (calls[j] # <<>> /\ calls[j][1].kind = "unknown") =>
            /\ Len(calls[j]) = 1
            /\ sleeps[j] = 0
            /\ EndText(j) = StartText(j) \o " [Could not understand audio chunk] "

C2_Witness ==
    /\ pc = "returned"
    /\ n >= 2
    /\ max_retries >= 2
    /\ calls[2][1].kind = "unknown"

\* C3: a chunk whose recognizer call raises a RequestError without "Broken pipe"
\* in its message has exactly one attempt, no sleep, and the placeholder that
\* carries the message verbatim appended to the transcript.
C3_OtherErrorOnce ==
    \A j \in DOMAIN calls :
        (calls[j] # <<>> /\ OtherRequestError(calls[j][1])) =>
            /\ Len(calls[j]) = 1
            /\ sleeps[j] = 0
            /\ EndText(j) = StartText(j) \o " [Could not transcribe audio chunk: "
                                \o calls[j][1].val \o "] "

C3_Witness ==
    /\ pc = "returned"
    /\ n >= 2
    /\ max_retries >= 2
    /\ calls[1][1].val = "broken pipe"
    /\ calls[2][1].val = "recognition request failed: Bad Gateway"

\* C4: once a chunk's processing has ended, normally or by an exception, its
\* temporary file temp_chunk_<i>.wav is no longer present.
C4_TempFileDeleted ==
    \A j \in 1..Len(snap) :
        (j <= i \/ pc \in {"returned", "raised"}) =>
            ("temp_chunk_" \o ToString(j - 1) \o ".wav") \notin fs

\* C5: after segmentation no outcome of a recognition call makes
\* transcribe_audio raise instead of returning a transcript.
C5_NeverAborts == pc # "raised"

\* C6: the returned transcript is the concatenation, in chunk order, of exactly
\* n space-prefixed segments, one per chunk (its text or its placeholder).
C6_OneSegmentPerChunk ==
    pc = "returned" =>
        /\ \A j \in 1..n : calls[j] # <<>> /\ HasSegment(Last(calls[j]))
        /\ transcript = Concat([j \in 1..n |-> ExpectedSegment(Last(calls[j]))])

\* C7: a chunk whose first k attempts (k < max_retries) raised the broken-pipe
\* error and whose next attempt succeeded has exactly k + 1 attempts and k
\* sleeps, and its text appended exactly once, as " <text>".
C7_RetryThenSuccess ==
    \A j \in DOMAIN calls : \A k \in 0..(max_retries - 1) :
        (/\ BrokenPipePrefix(j, k)
         /\ Len(calls[j]) >= k + 1
         /\ calls[j][k + 1].kind = "text") =>
            /\ Len(calls[j]) = k + 1
            /\ sleeps[j] = k
            /\ EndText(j) = StartText(j) \o " " \o calls[j][k + 1].val

C7_Witness ==
    /\ pc = "returned"
    /\ n >= 2
    /\ max_retries >= 2
    /\ Len(calls[1]) = 2 /\ BrokenPipePrefix(1, 1) /\ calls[1][2].kind = "text"
    /\ Len(calls[2]) = 1 /\ calls[2][1].kind = "text"

\* C8: a chunk whose max_retries attempts all raised the broken-pipe error
\* leaves the transcript as it was, and the loop goes on to the next chunk.
C8_ExhaustedYieldsNothing ==
    \A j \in DOMAIN calls :
        Exhausted(j) =>
            /\ EndText(j) = StartText(j)
            /\ (j = i + 1 => pc = "remove")
            /\ (j <= i /\ j < n /\ pc # "loop" => Len(snap) >= j + 1)

C8_Witness ==
    /\ n >= 2
    /\ max_retries >= 2
    /\ Exhausted(1)
    /\ transcript # ""
    /\ calls[2] # <<>>

\* C9: with a recognizer whose every call ends in text, "unintelligible" or a
\* transport error, a call of transcribe_audio returns, having taken the chunks
\* one at a time in index order, with at most max_retries calls per chunk and
\* at most n * max_retries calls in all.
C9_Terminates ==
    /\ [](\A j \in DOMAIN calls : Len(calls[j]) <= max_retries)
    /\ [](TotalCalls(calls) <= n * max_retries)
    /\ [][/\ i' \in {i, i + 1}
          /\ \A j \in DOMAIN calls :
                calls'[j] # calls[j] => (j = i + 1 /\ i' = i)]_vars
    /\ (pc # "idle") ~> (pc = "returned")

C9_Witness ==
    /\ pc = "returned"
    /\ n >= 2
    /\ max_retries >= 2
    /\ TotalCalls(calls) = n * max_retries

\* C10: a request with only an audio file is transcribed, a request with only
\* a document goes through extract_text_from_docx, and summarize_text is never
\* called on an absent text_input.
C10_RoutedByInput ==
    hpc # "idle" =>
        /\ AudioOnly(request) => branch = "audio"
        /\ DocxOnly(request) => branch = "docx"
        /\ \A k \in DOMAIN summarized : summarized[k] # None

====
